---- MODULE Spec2Model ----
(***************************************************************************)
(* Charmcraft's reactive plugin for craft-parts                            *)
(* (src/charmcraft/parts/reactive.py).                                     *)
(*                                                                         *)
(* Text is modelled as a sequence of atoms.  An atom is either one of the  *)
(* shell-significant characters (space, single quote, double quote,        *)
(* backslash) or a run of characters of shlex's safe set ("a", "b",        *)
(* "run_charm", "-o", a directory, ...), which no step ever looks inside.  *)
(***************************************************************************)
EXTENDS Integers, Sequences, FiniteSets, TLC

VARIABLES
    pc,                              \* position of the operation under study
    data,                            \* unmarshal: the part specification
    properties,                      \* unmarshal: its outcome
    part_name,                       \* validator: self._part_name
    part_dependencies,               \* validator: the keyword argument
    probe,                           \* validator: what `charm version` does
    validation,                      \* validator: outcome of the call
    reactive_charm_build_arguments,  \* plugin options
    part_info,                       \* install dir, build dir, project name
    commands,                        \* outcome of get_build_commands
    errexit,                         \* shell: the -e option
    retcode,                         \* shell: the global variable $retcode
    status,                          \* shell: $? of the last command
    link,                            \* file system: output_dir is a symlink
    charm_calls,                     \* every charm process so far: argv, exit
    output                           \* lines printed so far

vars == <<pc, data, properties, part_name, part_dependencies, probe,
          validation, reactive_charm_build_arguments, part_info, commands,
          errexit, retcode, status, link, charm_calls, output>>

-----------------------------------------------------------------------------
(* Bounds of the model.                                                    *)

\* Atoms in a list of build arguments, counting one per entry for the
\* entry itself.
MaxArgAtoms == 5

\* Parts in a part_dependencies list.
MaxDependencies == 2

-----------------------------------------------------------------------------
(* Text.                                                                   *)

SP == " "
SQ == "'"
DQ == "\""
BS == "\\"

\* Atoms the build arguments are written with: two safe ones and the four
\* shell-significant characters.
ArgAlphabet == {"a", "b", SP, SQ, DQ, BS}

None == [none |-> TRUE]

RECURSIVE Concat(_)
Concat(ss) == IF ss = <<>> THEN <<>> ELSE Head(ss) \o Concat(Tail(ss))

\* sep.join(ss)
RECURSIVE Join(_, _)
Join(sep, ss) ==
    IF ss = <<>> THEN <<>>
    ELSE IF Len(ss) = 1 THEN ss[1]
    ELSE ss[1] \o sep \o Join(sep, Tail(ss))

\* All texts of at most n atoms over the alphabet A.
RECURSIVE Texts(_, _)
Texts(A, n) ==
    IF n = 0 THEN {<<>>}
    ELSE LET shorter == Texts(A, n - 1)
         IN  shorter \cup {<<c>> \o t : c \in A, t \in {u \in shorter : Len(u) = n - 1}}

\* All lists of texts whose entries use at most n atoms, one counted per
\* entry.
RECURSIVE ArgLists(_)
ArgLists(n) ==
    IF n = 0 THEN {<<>>}
    ELSE {<<>>} \cup
         UNION {{<<t>> \o rest : rest \in ArgLists(n - 1 - Len(t))} :
                t \in Texts(ArgAlphabet, n - 1)}

-----------------------------------------------------------------------------
(* shlex.split(arg): posix mode, whitespace_split, no comment characters.  *)
(* The lexer state is " " between tokens, "a" inside a word, a quote       *)
(* character inside quotes, and the backslash after an escape.             *)

ShlexStart ==
    [state |-> SP, escapedstate |-> SP, token |-> <<>>, quoted |-> FALSE,
     tokens |-> <<>>, error |-> ""]

\* One character read in lexer state l.
ShlexChar(l, c) ==
    IF l.state = SP THEN
        IF c = SP THEN l
        ELSE IF c = BS THEN [l EXCEPT !.escapedstate = "a", !.state = BS]
        ELSE IF c \in {SQ, DQ} THEN [l EXCEPT !.state = c]
        ELSE [l EXCEPT !.token = <<c>>, !.state = "a"]
    ELSE IF l.state \in {SQ, DQ} THEN
        IF c = l.state THEN [l EXCEPT !.quoted = TRUE, !.state = "a"]
        ELSE IF c = BS /\ l.state = DQ
             THEN [l EXCEPT !.quoted = TRUE, !.escapedstate = l.state, !.state = BS]
        ELSE [l EXCEPT !.quoted = TRUE, !.token = @ \o <<c>>]
    ELSE IF l.state = BS THEN
        LET kept == IF l.escapedstate \in {SQ, DQ} /\ c # BS /\ c # l.escapedstate
                    THEN <<BS>> ELSE <<>>
        IN  [l EXCEPT !.token = @ \o kept \o <<c>>, !.state = l.escapedstate]
    ELSE \* inside a word
        IF c = SP THEN
            IF l.token # <<>> \/ l.quoted
            THEN [l EXCEPT !.tokens = @ \o <<l.token>>, !.token = <<>>,
                           !.quoted = FALSE, !.escapedstate = SP, !.state = SP]
            ELSE [l EXCEPT !.state = SP]
        ELSE IF c \in {SQ, DQ} THEN [l EXCEPT !.state = c]
        ELSE IF c = BS THEN [l EXCEPT !.escapedstate = "a", !.state = BS]
        ELSE [l EXCEPT !.token = @ \o <<c>>]

\* End of input in lexer state l.
ShlexEof(l) ==
    IF l.state \in {SQ, DQ} THEN [l EXCEPT !.error = "No closing quotation"]
    ELSE IF l.state = BS THEN [l EXCEPT !.error = "No escaped character"]
    ELSE IF l.state = "a" /\ (l.token # <<>> \/ l.quoted)
         THEN [l EXCEPT !.tokens = @ \o <<l.token>>, !.token = <<>>]
    ELSE l

RECURSIVE ShlexRead(_, _, _)
ShlexRead(s, i, l) ==
    IF i > Len(s) THEN ShlexEof(l) ELSE ShlexRead(s, i + 1, ShlexChar(l, s[i]))

\* shlex.split(s): the tokens, or the ValueError it raises.
ShlexSplit(s) ==
    LET l == ShlexRead(s, 1, ShlexStart)
    IN  [error |-> l.error, tokens |-> IF l.error = "" THEN l.tokens ELSE <<>>]

\* The characters shlex.quote leaves alone: [\w@%+=:,./-].
IsSafe(c) == c \notin {SP, SQ, DQ, BS}

RECURSIVE ReplaceSQ(_)
ReplaceSQ(s) ==
    IF s = <<>> THEN <<>>
    ELSE (IF Head(s) = SQ THEN <<SQ, DQ, SQ, DQ, SQ>> ELSE <<Head(s)>>)
         \o ReplaceSQ(Tail(s))

\* shlex.quote(s)
ShlexQuote(s) ==
    IF s = <<>> THEN <<SQ, SQ>>
    ELSE IF \A i \in 1..Len(s) : IsSafe(s[i]) THEN s
    ELSE <<SQ>> \o ReplaceSQ(s) \o <<SQ>>

-----------------------------------------------------------------------------
(* ReactivePlugin.get_build_commands                                       *)

\* The text of the shell function; what it does is RunCharm below.
RUN_CHARM_FUNCTION == <<"run_charm(){...}">>

PartInfos ==
    [part_install_dir : {"/parts/foo/install"},
     part_build_dir   : {"/parts/foo/build"},
     project_name     : {"fake-project", "other-project"}]

\* itertools.chain.from_iterable(shlex.split(arg) for arg in ...): the
\* tokens of the entries in order, or the first ValueError met.
RECURSIVE ChainSplit(_)
ChainSplit(args) ==
    IF args = <<>> THEN [error |-> "", tokens |-> <<>>]
    ELSE LET first == ShlexSplit(Head(args))
             rest  == ChainSplit(Tail(args))
         IN  IF first.error # "" THEN first
             ELSE IF rest.error # "" THEN rest
             ELSE [error |-> "", tokens |-> first.tokens \o rest.tokens]

\* The join without shlex.quote.
CommandArgsUnquoted(tokens) == Join(<<SP>>, tokens)

\* " ".join(shlex.quote(i) for i in args)
CommandArgs(tokens) ==
    Join(<<SP>>, [i \in 1..Len(tokens) |-> ShlexQuote(tokens[i])])

\* self._part_info.part_build_dir / self._part_info.project_name
OutputDir(info) == <<info.part_build_dir, "/", info.project_name>>

\* The five commands, for arguments that split into `tokens`.
BuildCommands(tokens, info) ==
    << RUN_CHARM_FUNCTION,
       <<"run_charm", SP, "proof">>,
       <<"ln", SP, "-sf", SP, info.part_install_dir, SP>> \o OutputDir(info),
       <<"run_charm", SP, "build", SP>> \o CommandArgs(tokens)
           \o <<SP, "-o", SP, info.part_build_dir>>,
       <<"rm", SP, "-f", SP>> \o OutputDir(info) >>

\* What the call does: the list it returns, or the exception it raises.
GetBuildCommandsResult(args, info) ==
    LET split == ChainSplit(args)
    IN  IF split.error # ""
        THEN [raised |-> "ValueError", reason |-> split.error, value |-> <<>>]
        ELSE [raised |-> "", reason |-> "", value |-> BuildCommands(split.tokens, info)]

get_build_commands ==
    /\ pc = "get_build_commands"
    /\ commands' = GetBuildCommandsResult(reactive_charm_build_arguments, part_info)
    /\ pc' = IF commands'.raised = "" THEN "define" ELSE "raised"
    /\ UNCHANGED <<data, properties, part_name, part_dependencies, probe,
                   validation, reactive_charm_build_arguments, part_info,
                   errexit, retcode, status, link, charm_calls, output>>

NoCommands == [raised |-> "", reason |-> "", value |-> <<>>]

\* part_dependencies=None, and part_dependencies=[...]
NoDependencies == [is_none |-> TRUE, parts |-> <<>>]
Dependencies(parts) == [is_none |-> FALSE, parts |-> parts]

\* The variables an operation does not use.
IdleProperties ==
    /\ data = None
    /\ properties = None

IdleValidator ==
    /\ part_name = ""
    /\ part_dependencies = NoDependencies
    /\ probe = None
    /\ validation = None

IdleShell ==
    /\ retcode = -1
    /\ status = 0
    /\ link = FALSE
    /\ charm_calls = <<>>
    /\ output = <<>>

InitCommands ==
    /\ pc = "get_build_commands"
    /\ reactive_charm_build_arguments \in ArgLists(MaxArgAtoms)
    /\ part_info \in PartInfos
    /\ commands = NoCommands
    /\ errexit = FALSE
    /\ IdleProperties /\ IdleValidator /\ IdleShell

NextCommands == get_build_commands

SpecCommands == InitCommands /\ [][NextCommands]_vars

-----------------------------------------------------------------------------
(* The shell that executes the emitted commands.                           *)

\* How the shell cuts a command line into words: blanks separate words,
\* single quotes keep everything, double quotes keep everything but an
\* escaped double quote or backslash, a backslash outside quotes keeps the
\* next character.  mode is "" outside quotes, else the open quote.
RECURSIVE ShellRead(_, _, _)
ShellRead(s, i, l) ==
    IF i > Len(s) THEN
        IF l.mode # "" THEN [l EXCEPT !.error = "unexpected EOF"]
        ELSE IF l.inword THEN [l EXCEPT !.words = @ \o <<l.word>>]
        ELSE l
    ELSE LET c == s[i] IN
        IF l.mode = SQ THEN
            IF c = SQ THEN ShellRead(s, i + 1, [l EXCEPT !.mode = ""])
            ELSE ShellRead(s, i + 1, [l EXCEPT !.word = @ \o <<c>>])
        ELSE IF l.mode = DQ THEN
            IF c = DQ THEN ShellRead(s, i + 1, [l EXCEPT !.mode = ""])
            ELSE IF c = BS /\ i < Len(s) /\ s[i + 1] \in {DQ, BS}
                 THEN ShellRead(s, i + 2, [l EXCEPT !.word = @ \o <<s[i + 1]>>])
            ELSE ShellRead(s, i + 1, [l EXCEPT !.word = @ \o <<c>>])
        ELSE IF c = SP THEN
            IF l.inword
            THEN ShellRead(s, i + 1, [l EXCEPT !.words = @ \o <<l.word>>,
                                               !.word = <<>>, !.inword = FALSE])
            ELSE ShellRead(s, i + 1, l)
        ELSE IF c \in {SQ, DQ}
             THEN ShellRead(s, i + 1, [l EXCEPT !.mode = c, !.inword = TRUE])
        ELSE IF c = BS THEN
            IF i < Len(s)
            THEN ShellRead(s, i + 2, [l EXCEPT !.word = @ \o <<s[i + 1]>>,
                                               !.inword = TRUE])
            ELSE ShellRead(s, i + 1, [l EXCEPT !.word = @ \o <<c>>, !.inword = TRUE])
        ELSE ShellRead(s, i + 1, [l EXCEPT !.word = @ \o <<c>>, !.inword = TRUE])

ShellWords(line) ==
    LET l == ShellRead(line, 1, [mode |-> "", word |-> <<>>, inword |-> FALSE,
                                 words |-> <<>>, error |-> ""])
    IN  [error |-> l.error, words |-> IF l.error = "" THEN l.words ELSE <<>>]

\* Word splitting of the result of an unquoted expansion: the fields
\* between blanks, empty fields dropped, quotes and backslashes kept.
RECURSIVE FieldSplit(_, _)
FieldSplit(word, field) ==
    IF word = <<>> THEN (IF field = <<>> THEN <<>> ELSE <<field>>)
    ELSE IF Head(word) = SP
         THEN (IF field = <<>> THEN <<>> ELSE <<field>>) \o FieldSplit(Tail(word), <<>>)
    ELSE FieldSplit(Tail(word), field \o <<Head(word)>>)

\* The words `charm $@` passes to charm, for positional parameters argv.
CharmArguments(argv) ==
    Concat([i \in 1..Len(argv) |-> FieldSplit(argv[i], <<>>)])

\* The warning range closed at 200.
RunCharmStatusInclusive(c) ==
    IF c = 0 THEN 0
    ELSE IF 100 <= c /\ c <= 200 THEN 0
    ELSE c

\* The status run_charm returns when charm exits with retcode c.
RunCharmStatus(c) ==
    IF c = 0 THEN 0
    ELSE IF 100 <= c /\ c < 200 THEN 0
    ELSE c

\* The line run_charm prints, "charm $1 result: ...".
RunCharmEcho(argv, c) ==
    [stream |-> IF c = 0 THEN "stdout" ELSE "stderr",
     subcommand |-> IF argv = <<>> THEN <<>> ELSE argv[1],
     result |-> IF c = 0 THEN "SUCCESS"
                ELSE IF 100 <= c /\ c < 200 THEN "WARNING" ELSE "ERROR",
     code |-> IF c = 0 THEN "" ELSE ToString(c)]

\* run_charm without its `set -e`: errexit stays off after `set +e`.
RunCharmNoErrexit(argv, c) ==
    /\ charm_calls' = Append(charm_calls, [argv |-> CharmArguments(argv), exit |-> c])
    /\ retcode' = c
    /\ errexit' = FALSE
    /\ output' = Append(output, RunCharmEcho(argv, c))
    /\ status' = RunCharmStatus(c)

\* A call of run_charm with positional parameters argv, in which charm
\* exits with c: set +e, charm $@, retcode=$?, set -e, echo, return.
RunCharm(argv, c) ==
    /\ charm_calls' = Append(charm_calls, [argv |-> CharmArguments(argv), exit |-> c])
    /\ retcode' = c
    /\ errexit' = TRUE
    /\ output' = Append(output, RunCharmEcho(argv, c))
    /\ status' = RunCharmStatus(c)

\* Every exit status of a process.
ExitStatuses == 0..255

\* The exit statuses charm takes in a run of the whole script: success,
\* the ends of the warning range and its neighbours, and other failures.
ScriptExitStatuses == {0, 1, 99, 100, 127, 199, 200, 255}

\* Where the shell goes after a command of the script: errexit ends it on
\* a non-zero status.
After(step, next, st, e) == IF st # 0 /\ e THEN "abort:" \o step ELSE next

\* The words of command k of the script.
Command(k) == ShellWords(commands.value[k])

\* Command 1: the definition of run_charm.
define_run_charm ==
    /\ pc = "define"
    /\ commands.value[1] = RUN_CHARM_FUNCTION
    /\ status' = 0
    /\ pc' = "proof"
    /\ UNCHANGED <<data, properties, part_name, part_dependencies, probe,
                   validation, reactive_charm_build_arguments, part_info,
                   commands, errexit, retcode, link, charm_calls, output>>

\* A command of the script that calls run_charm.
RunCharmCommand(step, k, next) ==
    /\ pc = step
    /\ LET cmd == Command(k) IN
        IF cmd.error # "" \/ cmd.words = <<>>
        THEN /\ status' = 2
             /\ pc' = "abort:" \o step
             /\ UNCHANGED <<errexit, retcode, charm_calls, output>>
        ELSE /\ cmd.words[1] = <<"run_charm">>
             /\ \E c \in ScriptExitStatuses : RunCharm(Tail(cmd.words), c)
             /\ pc' = After(step, next, status', errexit')
    /\ UNCHANGED <<data, properties, part_name, part_dependencies, probe,
                   validation, reactive_charm_build_arguments, part_info,
                   commands, link>>

\* Command 2: run_charm proof.
run_charm_proof == RunCharmCommand("proof", 2, "ln")

\* Command 3: ln -sf <install dir> <output dir>; it can fail.
ln_sf ==
    /\ pc = "ln"
    /\ Command(3).words = <<<<"ln">>, <<"-sf">>, <<part_info.part_install_dir>>,
                            OutputDir(part_info)>>
    /\ \E made \in BOOLEAN :
        /\ link' = made
        /\ status' = IF made THEN 0 ELSE 1
    /\ pc' = After("ln", "build", status', errexit)
    /\ UNCHANGED <<data, properties, part_name, part_dependencies, probe,
                   validation, reactive_charm_build_arguments, part_info,
                   commands, errexit, retcode, charm_calls, output>>

\* Command 4: run_charm build <command_args> -o <build dir>.
run_charm_build == RunCharmCommand("build", 4, "rm")

\* Command 5: rm -f <output dir>.
rm_f ==
    /\ pc = "rm"
    /\ Command(5).words = <<<<"rm">>, <<"-f">>, OutputDir(part_info)>>
    /\ link' = FALSE
    /\ status' = 0
    /\ pc' = "finished"
    /\ UNCHANGED <<data, properties, part_name, part_dependencies, probe,
                   validation, reactive_charm_build_arguments, part_info,
                   commands, errexit, retcode, charm_calls, output>>

\* The build step: the plugin emits the commands and a shell, with
\* errexit set or not, executes them in order.
InitRun ==
    /\ pc = "get_build_commands"
    /\ reactive_charm_build_arguments \in ArgLists(MaxArgAtoms)
    /\ part_info \in PartInfos
    /\ commands = NoCommands
    /\ errexit \in BOOLEAN
    /\ IdleProperties /\ IdleValidator /\ IdleShell

NextRun ==
    \/ get_build_commands
    \/ define_run_charm
    \/ run_charm_proof
    \/ ln_sf
    \/ run_charm_build
    \/ rm_f

SpecRun == InitRun /\ [][NextRun]_vars

\* run_charm by itself, for every exit status of charm.
RunCharmArgvs == {<<<<"proof">>>>, <<<<"build">>, <<"-o">>, <<"/parts/foo/build">>>>}

run_charm ==
    /\ pc = "run_charm"
    /\ \E argv \in RunCharmArgvs, c \in ExitStatuses : RunCharm(argv, c)
    /\ pc' = "returned"
    /\ UNCHANGED <<data, properties, part_name, part_dependencies, probe,
                   validation, reactive_charm_build_arguments, part_info,
                   commands, link>>

InitRunCharm ==
    /\ pc = "run_charm"
    /\ reactive_charm_build_arguments = <<>>
    /\ part_info \in PartInfos
    /\ commands = NoCommands
    /\ errexit \in BOOLEAN
    /\ IdleProperties /\ IdleValidator /\ IdleShell

NextRunCharm == run_charm

SpecRunCharm == InitRunCharm /\ [][NextRunCharm]_vars

-----------------------------------------------------------------------------
(* ReactivePluginEnvironmentValidator.validate_environment                 *)

COMMAND_NOT_FOUND == 127

Range(f) == {f[i] : i \in DOMAIN f}

\* A JSON value as json.loads returns it.  atoms holds the pieces of a
\* string or the items of an array, keys the keys of an object, and tool
\* the value under "charm-tools" of an object that has the key.
Scalar(type) == [type |-> type, atoms |-> <<>>, keys |-> {}]
String(atoms) == [type |-> "string", atoms |-> atoms, keys |-> {}]
Array(items) == [type |-> "array", atoms |-> items, keys |-> {}]
Object(keys) == [type |-> "object", atoms |-> <<>>, keys |-> keys]

ToolValues ==
    {Scalar(t) : t \in {"null", "bool", "number"}}
    \cup {String(a) : a \in {<<>>, <<"x">>, <<"version">>, <<"version", "git">>}}
    \cup {Array(a) : a \in {<<>>, <<"x">>, <<"git">>, <<"version", "git">>}}
    \cup {Object(k) : k \in SUBSET {"version", "git", "gitn"}}

NoTool == Scalar("absent")

VersionData ==
    {[value |-> v, tool |-> NoTool] :
        v \in {Scalar(t) : t \in {"null", "bool", "number"}}
              \cup {String(a) : a \in {<<>>, <<"x">>, <<"charm-tools">>}}
              \cup {Array(a) : a \in {<<>>, <<"x">>, <<"charm-tools">>}}
              \cup {Object(k) : k \in SUBSET {"snap"}}}
    \cup {[value |-> Object(k \cup {"charm-tools"}), tool |-> t] :
            k \in SUBSET {"snap"}, t \in ToolValues}

\* What the probe prints: a JSON text with the value it denotes, or a text
\* json.loads rejects.
Stdouts ==
    {[parses |-> TRUE, text |-> "json", data |-> d] : d \in VersionData}
    \cup {[parses |-> FALSE, text |-> t, data |-> [value |-> Scalar("null"), tool |-> NoTool]] :
            t \in {"", "charm: error"}}

\* Python's `key in v`: "True", "False" or "TypeError".
Contains(v, key) ==
    IF v.type = "object" THEN (IF key \in v.keys THEN "True" ELSE "False")
    ELSE IF v.type \in {"string", "array"}
         THEN (IF key \in Range(v.atoms) THEN "True" ELSE "False")
    ELSE "TypeError"

\* Python's v[key] for a string key that `key in v` found: whether it
\* raises TypeError.
IndexRaises(v) == v.type # "object"

\* Pieces of a reason: literal text and the values formatted into it.
Literal(s) == [lit |-> s]
Repr(s) == [repr |-> s]
Number(n) == [number |-> n]
Data(d) == [data |-> d]
Str(s) == [str |-> s]

Returns == [raised |-> "", part_name |-> "", reason |-> <<>>]

Raises(exception) == [raised |-> exception, part_name |-> "", reason |-> <<>>]

PluginEnvironmentValidationError(name, reason) ==
    [raised |-> "PluginEnvironmentValidationError", part_name |-> name,
     reason |-> reason]

\* The reason without the parsed structure.
InvalidVersionReasonBare(version_data) ==
    <<Literal("invalid charm tools version")>>

\* f"invalid charm tools version {version_data}"
InvalidVersionReason(version_data) ==
    <<Literal("invalid charm tools version "), Data(version_data)>>

\* The body of the try block once json.loads has returned version_data.
CheckVersionData(name, d) ==
    LET has_tool == Contains(d.value, "charm-tools")
        has_version == Contains(d.tool, "version")
        has_git == Contains(d.tool, "git")
    IN  IF has_tool = "TypeError" THEN Raises("TypeError")
        ELSE IF has_tool = "False"
             THEN PluginEnvironmentValidationError(name, InvalidVersionReason(d))
        ELSE IF IndexRaises(d.value) THEN Raises("TypeError")
        ELSE IF has_version = "TypeError" THEN Raises("TypeError")
        ELSE IF has_version = "False"
             THEN PluginEnvironmentValidationError(name, InvalidVersionReason(d))
        ELSE IF has_git = "TypeError" THEN Raises("TypeError")
        ELSE IF has_git = "False"
             THEN PluginEnvironmentValidationError(name, InvalidVersionReason(d))
        ELSE IF IndexRaises(d.tool) THEN Raises("TypeError")
        ELSE Returns

\* except ValueError
ValueErrorHandler(name) ==
    PluginEnvironmentValidationError(name, <<Literal("invalid charm tools installed")>>)

\* Any list of dependencies taken for one that names charm-tools.
DependsOnSomePart(deps) == ~deps.is_none

\* "charm-tools" in part_dependencies, false for None.
DependsOnCharmTools(deps) ==
    ~deps.is_none /\ "charm-tools" \in Range(deps.parts)

\* The handler with the dependency looked at before the return code.
CalledProcessErrorHandlerDependencyFirst(name, deps, returncode) ==
    IF DependsOnCharmTools(deps) THEN Returns
    ELSE IF returncode # COMMAND_NOT_FOUND
    THEN PluginEnvironmentValidationError(name,
            <<Literal("charm tools failed with error code "), Number(returncode)>>)
    ELSE PluginEnvironmentValidationError(name,
            <<Literal("charm tool not found and part "), Repr(name),
              Literal(" does not depend on a part named 'charm-tools'")>>)

\* except subprocess.CalledProcessError
CalledProcessErrorHandler(name, deps, returncode) ==
    IF returncode # COMMAND_NOT_FOUND
    THEN PluginEnvironmentValidationError(name,
            <<Literal("charm tools failed with error code "), Number(returncode)>>)
    ELSE IF ~DependsOnCharmTools(deps)
    THEN PluginEnvironmentValidationError(name,
            <<Literal("charm tool not found and part "), Repr(name),
              Literal(" does not depend on a part named 'charm-tools'")>>)
    ELSE Returns

\* self._execute raises CalledProcessError on a non-zero exit status and
\* returns the standard output otherwise; json.loads raises a ValueError
\* on a text that is not JSON.
ValidateEnvironmentResult(name, deps, p) ==
    IF p.returncode # 0 THEN CalledProcessErrorHandler(name, deps, p.returncode)
    ELSE IF ~p.stdout.parses THEN ValueErrorHandler(name)
    ELSE CheckVersionData(name, p.stdout.data)

\* print(f"found {tools_version}"), reached when nothing was raised in
\* the try block.
Found(d) == [stream |-> "stdout", found |-> d.tool]

validate_environment ==
    /\ pc = "validate_environment"
    /\ validation' = ValidateEnvironmentResult(part_name, part_dependencies, probe)
    /\ output' = IF probe.returncode = 0 /\ validation'.raised = ""
                 THEN Append(output, Found(probe.stdout.data))
                 ELSE output
    /\ pc' = "validated"
    /\ UNCHANGED <<data, properties, part_name, part_dependencies, probe,
                   reactive_charm_build_arguments, part_info, commands,
                   errexit, retcode, status, link, charm_calls>>

PartNames == {"charm-tools", "my-part", "other"}

RECURSIVE Lists(_, _)
Lists(S, n) ==
    IF n = 0 THEN {<<>>}
    ELSE Lists(S, n - 1) \cup {Append(l, x) : l \in Lists(S, n - 1), x \in S}

\* What `charm version --format json` does: a failing process prints
\* nothing that is read.
Probes ==
    {[returncode |-> 0, stdout |-> o] : o \in Stdouts}
    \cup {[returncode |-> c, stdout |-> o] :
            c \in (-15..255) \ {0},
            o \in {x \in Stdouts : ~x.parses /\ x.text = ""}}

InitValidate ==
    /\ pc = "validate_environment"
    /\ part_name \in {"my-part", "foo"}
    /\ part_dependencies \in
          {NoDependencies} \cup {Dependencies(l) : l \in Lists(PartNames, MaxDependencies)}
    /\ probe \in Probes
    /\ validation = None
    /\ reactive_charm_build_arguments = <<>>
    /\ part_info \in {i \in PartInfos : i.project_name = "fake-project"}
    /\ commands = NoCommands
    /\ errexit = FALSE
    /\ IdleProperties /\ IdleShell

NextValidate == validate_environment

SpecValidate == InitValidate /\ [][NextValidate]_vars

-----------------------------------------------------------------------------
(* ReactivePluginProperties.unmarshal                                      *)

\* Keys of a part specification; a key is a text whose first atom is its
\* prefix up to the first hyphen, when it has one.
SourceKey == <<"source">>
BuildArgumentsKey == <<"reactive-", "charm-build-arguments">>

Keys ==
    {SourceKey, BuildArgumentsKey, <<"plugin">>, <<"reactive">>,
     <<"reactive-", "invalid">>, <<"build-", "packages">>}

\* What a value is: a string or a list of strings.
ValueKinds == {"str", "list"}

\* key.startswith(prefix)
StartsWith(key, prefix) == key # <<>> /\ key[1] = prefix

\* plugins.extract_plugin_properties(data, plugin_name="reactive",
\* required=["source"]): the entries whose key starts with "reactive-" or
\* is a required one.
ExtractPluginProperties(d) ==
    LET kept == {k \in DOMAIN d : StartsWith(k, "reactive-") \/ k = SourceKey}
    IN  [k \in kept |-> d[k]]

\* The fields of the model, by alias, with the kind of value each takes.
FieldKinds == (SourceKey :> "str") @@ (BuildArgumentsKey :> "list")

\* The validation with extra fields ignored instead of forbidden.
ValidationErrorsIgnoreExtra(plugin_data) ==
    {[loc |-> k, type |-> "type_error." \o FieldKinds[k]] :
        k \in {f \in DOMAIN plugin_data \cap DOMAIN FieldKinds :
                 plugin_data[f] # FieldKinds[f]}}
    \cup {[loc |-> k, type |-> "value_error.missing"] :
            k \in {SourceKey} \ DOMAIN plugin_data}

\* cls(**plugin_data): the errors of the validation, each with the key it
\* names.  A key that is no field is an extra field, and is forbidden.
ValidationErrors(plugin_data) ==
    {[loc |-> k, type |-> "value_error.extra"] :
        k \in DOMAIN plugin_data \ DOMAIN FieldKinds}
    \cup {[loc |-> k, type |-> "type_error." \o FieldKinds[k]] :
            k \in {f \in DOMAIN plugin_data \cap DOMAIN FieldKinds :
                     plugin_data[f] # FieldKinds[f]}}
    \cup {[loc |-> k, type |-> "value_error.missing"] :
            k \in {SourceKey} \ DOMAIN plugin_data}

\* What the call does: the properties object, or the ValidationError.
UnmarshalResult(d) ==
    LET plugin_data == ExtractPluginProperties(d)
        errors == ValidationErrors(plugin_data)
    IN  IF errors # {}
        THEN [raised |-> "ValidationError", errors |-> errors,
              source |-> "", reactive_charm_build_arguments |-> ""]
        ELSE [raised |-> "", errors |-> {},
              source |-> plugin_data[SourceKey],
              reactive_charm_build_arguments |->
                  IF BuildArgumentsKey \in DOMAIN plugin_data
                  THEN plugin_data[BuildArgumentsKey] ELSE "default"]

unmarshal ==
    /\ pc = "unmarshal"
    /\ properties' = UnmarshalResult(data)
    /\ pc' = "unmarshalled"
    /\ UNCHANGED <<data, part_name, part_dependencies, probe, validation,
                   reactive_charm_build_arguments, part_info, commands,
                   errexit, retcode, status, link, charm_calls, output>>

InitUnmarshal ==
    /\ pc = "unmarshal"
    /\ data \in UNION {[K -> ValueKinds] : K \in SUBSET Keys}
    /\ properties = None
    /\ reactive_charm_build_arguments = <<>>
    /\ part_info \in {i \in PartInfos : i.project_name = "fake-project"}
    /\ commands = NoCommands
    /\ errexit = FALSE
    /\ IdleValidator /\ IdleShell

NextUnmarshal == unmarshal

SpecUnmarshal == InitUnmarshal /\ [][NextUnmarshal]_vars

-----------------------------------------------------------------------------
(* Properties of validate_environment, under SpecValidate.                 *)

Validated == pc = "validated"

PEVE == "PluginEnvironmentValidationError"

\* The output parses as JSON and is an object with a "charm-tools" entry
\* that is an object with a "version" and a "git" field.
Acceptable(o) ==
    /\ o.parses
    /\ o.data.value.type = "object"
    /\ "charm-tools" \in o.data.value.keys
    /\ o.data.tool.type = "object"
    /\ {"version", "git"} \subseteq o.data.tool.keys

\* C1: for a probe that exits 0, whatever it prints, validate_environment
\* returns normally exactly when the output is acceptable, and otherwise
\* raises a PluginEnvironmentValidationError with the part name and a
\* reason, never another error.
C1_ZeroExitReturnsOrRaisesValidationError ==
    (Validated /\ probe.returncode = 0) =>
        /\ (validation.raised = "") <=> Acceptable(probe.stdout)
        /\ ~Acceptable(probe.stdout) =>
              /\ validation.raised = PEVE
              /\ validation.part_name = part_name
              /\ validation.reason # <<>>

\* C2: for a probe that exits 127, validate_environment raises a
\* PluginEnvironmentValidationError exactly when part_dependencies is None
\* or lacks "charm-tools", and returns normally otherwise; the reason says
\* that the charm tool was not found and names the part.
C2_NotFoundFailsUnlessCharmToolsDependency ==
    (Validated /\ probe.returncode = 127) =>
        LET lacking == part_dependencies.is_none
                       \/ \A i \in DOMAIN part_dependencies.parts :
                              part_dependencies.parts[i] # "charm-tools"
        IN  /\ lacking =>
                /\ validation.raised = PEVE
                /\ validation.part_name = part_name
                /\ Len(validation.reason) >= 2
                /\ validation.reason[1] = Literal("charm tool not found and part ")
                /\ validation.reason[2] = Repr(part_name)
            /\ ~lacking => validation.raised = ""

C2_Witness ==
    /\ Validated
    /\ probe.returncode = 127
    /\ ~part_dependencies.is_none
    /\ part_dependencies.parts = <<"other", "charm-tools">>
    /\ validation.raised = ""

\* C3: for a probe that exits with a non-zero status other than 127,
\* validate_environment raises a PluginEnvironmentValidationError whose
\* reason embeds that exit code, whatever part_dependencies is.
C3_OtherExitCodeFailsWithTheCode ==
    (Validated /\ probe.returncode \notin {0, 127}) =>
        /\ validation.raised = PEVE
        /\ validation.part_name = part_name
        /\ \E i \in DOMAIN validation.reason :
              validation.reason[i] = Number(probe.returncode)

C3_Witness ==
    /\ Validated
    /\ probe.returncode = 1
    /\ ~part_dependencies.is_none
    /\ part_dependencies.parts = <<"charm-tools">>
    /\ validation.raised = PEVE

\* The probe exited 0 and the call raised a PluginEnvironmentValidationError.
OutputRejected == Validated /\ probe.returncode = 0 /\ validation.raised = PEVE

Embeds(reason, piece) == \E i \in DOMAIN reason : reason[i] = piece

\* C7 as stated: whenever the output of the probe is rejected, the reason
\* embeds the payload, the parsed structure when it parsed and the
\* unparsed output when it did not.
C7_ReasonEmbedsPayload ==
    OutputRejected =>
        IF probe.stdout.parses
        THEN Embeds(validation.reason, Data(probe.stdout.data))
        ELSE Embeds(validation.reason, Str(probe.stdout.text))

\* C7 amended: whenever the output of the probe is rejected with a
\* PluginEnvironmentValidationError, the reason embeds the parsed structure
\* when the output parsed, and is the fixed text "invalid charm tools
\* installed", without the output, when it did not.
C7_ReasonEmbedsParsedStructureOnly ==
    OutputRejected =>
        IF probe.stdout.parses
        THEN Embeds(validation.reason, Data(probe.stdout.data))
        ELSE validation.reason = <<Literal("invalid charm tools installed")>>

C7_Witness ==
    /\ OutputRejected
    /\ probe.stdout.parses
    /\ probe.stdout.data.tool = Object({"version"})
    /\ Embeds(validation.reason, Data(probe.stdout.data))

-----------------------------------------------------------------------------
(* Properties of unmarshal, under SpecUnmarshal.                           *)

Unmarshalled == pc = "unmarshalled"

Recognized == {<<"source">>, <<"reactive-", "charm-build-arguments">>}

Names(k) ==
    /\ properties.raised = "ValidationError"
    /\ \E e \in properties.errors : e.loc = k

\* C6 as stated: a configuration with an unrecognized key k, with the
\* "reactive-" prefix or without it, fails with a validation error that
\* names k.
C6_UnrecognizedKeyFails ==
    Unmarshalled => \A k \in DOMAIN data \ Recognized : Names(k)

\* C6 amended: a configuration with an unrecognized key k that starts with
\* "reactive-" fails with a validation error that names k; an unrecognized
\* key without the prefix is dropped and never named in an error.
C6_UnrecognizedReactiveKeyFails ==
    Unmarshalled =>
        \A k \in DOMAIN data \ Recognized :
            IF k[1] = "reactive-" THEN Names(k) ELSE ~Names(k)

C6_Witness ==
    /\ Unmarshalled
    /\ DOMAIN data = {<<"source">>, <<"plugin">>, <<"reactive-", "invalid">>}
    /\ data[<<"source">>] = "str"
    /\ properties.raised = "ValidationError"
    /\ properties.errors =
          {[loc |-> <<"reactive-", "invalid">>, type |-> "value_error.extra"]}

-----------------------------------------------------------------------------
(* Properties of get_build_commands, under SpecCommands.                   *)

Called == pc \in {"define", "raised"}

\* Every entry of the configured arguments can be shell-split.
Splittable(args) == \A i \in DOMAIN args : ShlexSplit(args[i]).error = ""

\* The tokens of the first n entries, in the order of the entries and in
\* their order inside each entry.
RECURSIVE TokensOfFirst(_, _)
TokensOfFirst(args, n) ==
    IF n = 0 THEN <<>>
    ELSE TokensOfFirst(args, n - 1) \o ShlexSplit(args[n]).tokens

\* The first n tokens, shell-quoted and joined by single spaces.
RECURSIVE QuotedJoinOfFirst(_, _)
QuotedJoinOfFirst(tokens, n) ==
    IF n = 0 THEN <<>>
    ELSE IF n = 1 THEN ShlexQuote(tokens[1])
    ELSE QuotedJoinOfFirst(tokens, n - 1) \o <<" ">> \o ShlexQuote(tokens[n])

\* The five commands of the claim, for install dir I, build dir B and
\* project name P.
FiveCommands(args, I, B, P) ==
    LET tokens == TokensOfFirst(args, Len(args))
        command_args == QuotedJoinOfFirst(tokens, Len(tokens))
    IN  << RUN_CHARM_FUNCTION,
           <<"run_charm", " ", "proof">>,
           <<"ln", " ", "-sf", " ", I, " ", B, "/", P>>,
           <<"run_charm", " ", "build", " ">> \o command_args \o <<" ", "-o", " ", B>>,
           <<"rm", " ", "-f", " ", B, "/", P>> >>

ReturnsFiveCommands ==
    /\ commands.raised = ""
    /\ commands.value =
          FiveCommands(reactive_charm_build_arguments, part_info.part_install_dir,
                       part_info.part_build_dir, part_info.project_name)

\* C4 as stated: for every list of build arguments get_build_commands
\* returns exactly the five commands, in order.
C4_AlwaysFiveCommands == Called => ReturnsFiveCommands

\* C4 amended: for every list of build arguments whose entries can all be
\* shell-split get_build_commands returns exactly the five commands, in
\* order; for a list with an entry that cannot (an open quote, a trailing
\* backslash) it raises ValueError.
C4_FiveCommandsOrValueError ==
    Called =>
        IF Splittable(reactive_charm_build_arguments)
        THEN ReturnsFiveCommands
        ELSE commands.raised = "ValueError"

\* Two entries, the first of which yields a token with a space in it.
C4_Witness ==
    /\ pc = "define"
    /\ reactive_charm_build_arguments = <<<<"\\", " ">>, <<"a">>>>
    /\ commands.value[4] =
          <<"run_charm", " ", "build", " ", "'", " ", "'", " ", "a", " ", "-o", " ",
            part_info.part_build_dir>>

-----------------------------------------------------------------------------
(* Properties of run_charm, under SpecRunCharm.                            *)

IsWarning(c) == 100 <= c /\ c < 200

\* C5: run_charm returns 0 when charm exits with 0 or with a status in
\* [100, 200), and the status of charm itself otherwise; 99 and 200 are
\* errors, 100 and 199 are warnings.
C5_RunCharmReturnsZeroOrTheStatus ==
    pc = "returned" =>
        LET c == charm_calls[1].exit
        IN  /\ c = 0 => status = 0
            /\ IsWarning(c) => status = 0
            /\ (c # 0 /\ ~IsWarning(c)) => status = c
            /\ c \in {99, 200} => status = c
            /\ c \in {100, 199} => status = 0
            /\ (status # 0) <=> (c # 0 /\ ~IsWarning(c))

C5_Witness ==
    /\ pc = "returned"
    /\ charm_calls[1].exit = 200
    /\ status = 200

-----------------------------------------------------------------------------
(* Properties of a run of the emitted commands, under SpecRun.             *)

ProofExit == charm_calls[1].exit

BuildInvoked ==
    \E i \in DOMAIN charm_calls :
        charm_calls[i].argv # <<>> /\ charm_calls[i].argv[1] = <<"build">>

PastProof == pc \in {"ln", "abort:ln", "build", "abort:build", "rm", "finished"}

\* C8: the run goes past `run_charm proof` exactly when charm proof exits
\* with 0 or a status in [100, 200); on another status it aborts there,
\* with no symlink made and charm build never invoked; and charm build is
\* not invoked before charm proof has finished and `ln -sf` has run.
C8_ProofGatesTheBuild ==
    /\ PastProof => (Len(charm_calls) >= 1 /\ (ProofExit = 0 \/ IsWarning(ProofExit)))
    /\ pc = "abort:proof" =>
          /\ Len(charm_calls) = 1
          /\ ProofExit # 0 /\ ~IsWarning(ProofExit)
          /\ ~link
          /\ ~BuildInvoked
    /\ BuildInvoked =>
          /\ pc \in {"abort:build", "rm", "finished"}
          /\ Len(charm_calls) = 2
          /\ charm_calls[1].argv = <<<<"proof">>>>
    /\ pc \in {"build", "abort:build", "rm"} => link

C8_Witness ==
    /\ pc = "abort:proof"
    /\ ProofExit = 200
    /\ ~link

RunEnded == pc \in {"finished", "abort:proof", "abort:ln", "abort:build"}

\* C9: when the run has ended, whatever the outcome of `run_charm build`,
\* no symlink is left at build_dir/project_name.
C9_NoLinkLeftBehind == RunEnded => ~link

\* C10: every token of the shell-split build arguments reaches charm as
\* exactly one argument with its content unchanged: charm build is called
\* with "build", the tokens in order, "-o" and the build dir.
C10_TokensReachCharmUnchanged ==
    BuildInvoked =>
        charm_calls[2].argv =
            <<<<"build">>>>
            \o TokensOfFirst(reactive_charm_build_arguments,
                             Len(reactive_charm_build_arguments))
            \o <<<<"-o">>, <<part_info.part_build_dir>>>>

====
